---- MODULE Spec2Model ----
(***************************************************************************)
(* Charge-session lifecycle and settlement pipeline of evXExpo.            *)
(*                                                                         *)
(* The model covers the Firestore collections `stations`, `charges`,       *)
(* `users` and `platform_earnings`, the two driver screens of the          *)
(* repository (src/src/screens/DriverMapScreen.tsx and the earlier copy    *)
(* src/unnamed/part_000), and the Cloud Functions of src/Functions/index.js*)
(* Every remote call (`await ref.update(...)`) is one step, so handlers    *)
(* with several awaits are several steps and interleave with the other     *)
(* clients and with the functions.                                         *)
(***************************************************************************)
EXTENDS Integers, Sequences, FiniteSets, TLC

\* ------------------------------------------------------------------ bounds
MaxTicks == 3          \* the clock takes the values TickMs .. MaxTicks * TickMs
MaxSessions == 2       \* documents ever created in `charges`
MaxDeliveries == 2      \* deliveries of one document-updated event (at-least-once)
MaxLocationUpdates == 1 \* location updates whose alerts may be on screen when one more arrives

\* --------------------------------------------------------------- universe
Drivers == {"d1", "d2"}
Stations == {"s1", "s2"}
Null == "null"
Variants == {"DriverMapScreen", "part_000"}

TickMs == 8 * 60 * 1000            \* one clock step of the model: 8 minutes
EnRouteTimeoutMs == 15 * 60 * 1000

\* Documents of `stations` in the order a snapshot lists them (by document id).
StationOrder == <<"s1", "s2">>

\* station.ownerId: both stations belong to the same owner.
Owners == {"o1"}
ownerId == [s \in Stations |-> "o1"]

\* station.ownerStripeId is set (a payout destination is linked) for s2 only.
ownerStripeId == [s \in Stations |-> s = "s2"]

\* parseFloat(station.chargeRate), in cents per minute ("2.00" and "0.50").
chargeRate == [s \in Stations |-> IF s = "s1" THEN 2 * 100 ELSE 50]

\* userData.email, cut at every "_" (driverId is the email): "ann@ev.io" and
\* "bob_lee@ev.io".  auth.currentUser.uid of each driver.
email == [d \in Drivers |-> IF d = "d1" THEN <<"ann@ev.io">> ELSE <<"bob", "lee@ev.io">>]
uid == [d \in Drivers |-> IF d = "d1" THEN "uidAnn" ELSE "uidBob"]

\* driverId.split('_')[0]: the document id the Cloud Functions look up in `users`.
FunctionsUserKey(driverId) == Head(email[driverId])

UserKeys == {uid[d] : d \in Drivers} \cup {FunctionsUserKey(d) : d \in Drivers} \cup Owners

SessionIds == 1..MaxSessions

\* The two sources of the processCharge Cloud Function in the repository.
FunctionsVariants == {"index.js", "part_005"}

VARIABLES
  now,            \* Date.now(), in ms; never 0, so 0 stands for an unset timestamp
  stations,       \* Firestore `stations`: the fields the charge flow writes
  charges,        \* Firestore `charges`: sequence of session documents, id = index
  variant,        \* which of the two driver screens each driver's device runs
  snap,           \* each client's `stations` state: the last delivered snapshot
  pendingSnap,    \* a stations snapshot is waiting to be delivered to the client
  selectedStation,\* each client's selectedStation (a copy of the tile pressed)
  chargeSession,  \* each client's chargeSession (0 = null, else the session id)
  pc,             \* position of each client's handler in flight
  stripeToken,    \* each client's userData.stripeToken (a card is on file)
  opStation,      \* the station the handler in flight closed over
  opSession,      \* the session id the handler in flight closed over (0 = none)
  opLocal,        \* a local of the handler in flight (endTime, currentBalance)
  pendingReset,   \* part_000: resetStation calls started by the stations listener
  users,          \* Firestore `users`: exists, stripeToken, walletBalance
  platformEarnings,\* Firestore `platform_earnings`, by charge id
  authPending,    \* document-created events not yet handled by startChargeProcess
  captureEv,      \* document-updated events that pass processCharge's guard
  captured,       \* Stripe: confirmed captures per session's payment intent
  transferred,    \* Stripe: transfers to the owner per session
  ownerPaid,      \* Stripe: cents transferred to the owner per session
  walletCredits,  \* writes of the owner's walletBalance made for each session
  functionsVariant,\* which processCharge source is deployed to Cloud Functions
  hasShownEndChargeDialog, \* each client's appState.hasShownEndChargeDialog
  reminders       \* each client's End Charge Notification alerts on screen, oldest
                  \* first: the chargeSession and selectedStation each closed over

vars == <<now, stations, charges, variant, snap, pendingSnap, selectedStation,
          chargeSession, pc, stripeToken, opStation, opSession, opLocal,
          pendingReset, users, platformEarnings, authPending, captureEv, captured, transferred,
          ownerPaid, walletCredits, functionsVariant, hasShownEndChargeDialog,
          reminders>>

clientVars == <<snap, pendingSnap, selectedStation, chargeSession, pc, stripeToken,
                opStation, opSession, opLocal, pendingReset>>
reminderVars == <<hasShownEndChargeDialog, reminders>>
settleVars == <<users, platformEarnings, authPending, captureEv, captured, transferred,
                ownerPaid, walletCredits>>

\* ------------------------------------------------------------ initial state
\* A station as SignupScreen's handleAddStation creates it.
NewStation == [status |-> "available", driverId |-> Null, enRouteTime |-> 0,
               available |-> TRUE, networkType |-> "In-net"]

\* A `users` document as signup writes it, and a missing document.
NewUser == [exists |-> TRUE, stripeToken |-> FALSE, walletBalance |-> 0]
NoUser == [exists |-> FALSE, stripeToken |-> FALSE, walletBalance |-> 0]

\* selectedStation: null; a platform_earnings document that does not exist.
NoSelection == [id |-> Null, available |-> FALSE]
NoEarning == [amount |-> 0, timestamp |-> 0]

NoEvent == [fired |-> FALSE, paymentIntentId |-> FALSE, totalCost |-> 0, delivered |-> 0]

\* The screen has just mounted: nothing selected, no session, no handler in flight.
InitClients ==
  /\ snap = [d \in Drivers |-> [s \in Stations |-> NewStation]]
  /\ pendingSnap = [d \in Drivers |-> FALSE]
  /\ selectedStation = [d \in Drivers |-> NoSelection]
  /\ chargeSession = [d \in Drivers |-> 0]
  /\ pc = [d \in Drivers |-> "idle"]
  /\ opStation = [d \in Drivers |-> Null]
  /\ opSession = [d \in Drivers |-> 0]
  /\ opLocal = [d \in Drivers |-> 0]
  /\ pendingReset = [d \in Drivers |-> {}]
  /\ hasShownEndChargeDialog = [d \in Drivers |-> FALSE]
  /\ reminders = [d \in Drivers |-> <<>>]

\* The stations in `outNet` were added as out-of-network chargers.
InitStations(outNet) ==
  stations = [s \in Stations |->
                IF s \in outNet THEN [NewStation EXCEPT !.networkType = "Out-net"]
                ELSE NewStation]

InitCollections ==
  /\ now = TickMs
  /\ charges = <<>>
  /\ platformEarnings = [i \in SessionIds |-> NoEarning]
  /\ authPending = {}
  /\ captureEv = [i \in SessionIds |-> NoEvent]
  /\ captured = [i \in SessionIds |-> 0]
  /\ transferred = [i \in SessionIds |-> 0]
  /\ ownerPaid = [i \in SessionIds |-> 0]
  /\ walletCredits = [i \in SessionIds |-> 0]

InitStore ==
  /\ InitStations({})
  /\ InitCollections

\* The source deployed to Cloud Functions is one of `deployed`.
InitFunctions(deployed) == functionsVariant \in deployed

\* Every driver and owner has signed up (users/{uid}), the drivers in `cards` with a
\* payment method saved.  The documents under the ids the Cloud Functions compute
\* are written by no screen: `provisioned` says whether they exist.
InitUsers(cards, provisioned) ==
  /\ stripeToken = [d \in Drivers |-> d \in cards]
  /\ users = [k \in UserKeys |->
                IF k \in {FunctionsUserKey(d) : d \in Drivers}
                  THEN IF provisioned THEN [NewUser EXCEPT !.stripeToken = TRUE] ELSE NoUser
                ELSE IF k \in {uid[d] : d \in cards}
                  THEN [NewUser EXCEPT !.stripeToken = TRUE]
                ELSE NewUser]

Init ==
  /\ InitClients
  /\ InitStore
  /\ InitFunctions(FunctionsVariants)
  /\ variant \in [Drivers -> Variants]
  /\ \E provisioned \in BOOLEAN : InitUsers({}, provisioned)

\* ------------------------------------------------------------------ helpers
AllPending == [d \in Drivers |-> TRUE]

\* stations.filter(s => s.status === 'enRoute' && s.driverId === userData.email).length
enRouteCount(d) ==
  Cardinality({s \in Stations : snap[d][s].status = "enRoute" /\ snap[d][s].driverId = d})

\* stations.filter(s => s.status === 'charging' && s.driverId === userData.email).length
chargingCount(d) ==
  Cardinality({s \in Stations : snap[d][s].status = "charging" /\ snap[d][s].driverId = d})

\* stations.find(s => s.status === 'enRoute' && s.driverId === userData.email)
enRouteStation(d) ==
  LET hits == {i \in 1..Len(StationOrder) :
                 /\ snap[d][StationOrder[i]].status = "enRoute"
                 /\ snap[d][StationOrder[i]].driverId = d}
  IN IF hits = {} THEN Null
     ELSE StationOrder[CHOOSE i \in hits : \A j \in hits : i <= j]

\* The tile object handleTilePress stores: the station id and its `available` flag.
Tile(d, s) == [id |-> s, available |-> snap[d][s].available]

\* The listeners of DriverMapScreen.tsx are unsubscribed while isUpdatingState.
Subscribed(d) == variant[d] = "part_000" \/ pc[d] \in {"idle", "navConfirm", "alert"}

\* ------------------------------------------------------------ station writes
\* startNavigation: update({status: 'enRoute', driverId, enRouteTime: Date.now()})
ReserveFields(st, d) ==
  [st EXCEPT !.status = "enRoute", !.driverId = d, !.enRouteTime = now]

\* startCharge: update({status: 'charging', available: false})
ChargingFields(st) == [st EXCEPT !.status = "charging", !.available = FALSE]

\* resetStation and part_000's endCharge:
\* update({status: 'available', available: true, driverId: null, enRouteTime: null})
ResetFields(st) ==
  [st EXCEPT !.status = "available", !.available = TRUE, !.driverId = Null,
             !.enRouteTime = 0]

\* DriverMapScreen.tsx Cancel Navigation:
\* update({status: 'available', driverId: null, enRouteTime: null})
CancelFields(st) ==
  [st EXCEPT !.status = "available", !.driverId = Null, !.enRouteTime = 0]

\* A release that takes the station one status back: charging to enRoute, enRoute
\* to available.
ReleaseFieldsOneBack(st) ==
  IF st.status = "charging"
    THEN [st EXCEPT !.status = "enRoute"]
    ELSE [st EXCEPT !.status = "available", !.driverId = Null]

\* DriverMapScreen.tsx endCharge: update({status: 'available', driverId: null})
ReleaseFields(st) == [st EXCEPT !.status = "available", !.driverId = Null]

\* ------------------------------------------------------------------- clock
Tick ==
  /\ now + TickMs <= MaxTicks * TickMs
  /\ now' = now + TickMs
  /\ UNCHANGED <<stations, charges, variant, functionsVariant, reminderVars, clientVars, settleVars>>

\* ------------------------------------------------------- stations listener
\* part_000's listener also starts resetStation for every enRoute station whose
\* enRouteTime is more than 15 minutes old.
Expired(st) ==
  /\ st.status = "enRoute"
  /\ st.enRouteTime # 0
  /\ now - st.enRouteTime > EnRouteTimeoutMs

StationsListener(d) ==
  /\ pendingSnap[d]
  /\ Subscribed(d)
  /\ snap' = [snap EXCEPT ![d] = stations]
  /\ pendingSnap' = [pendingSnap EXCEPT ![d] = FALSE]
  /\ pendingReset' =
       [pendingReset EXCEPT ![d] =
          IF variant[d] = "part_000"
            THEN @ \cup {s \in Stations : Expired(stations[s])}
            ELSE @]
  /\ UNCHANGED <<now, stations, charges, variant, functionsVariant, reminderVars, selectedStation, chargeSession, pc,
                 stripeToken, opStation, opSession, opLocal, settleVars>>

\* resetStation(station): the write, then the local chargeSession is dropped when it
\* is a session at this station.
resetStation(d, s) ==
  /\ stations' = [stations EXCEPT ![s] = ResetFields(@)]
  /\ pendingSnap' = AllPending
  /\ chargeSession' =
       [chargeSession EXCEPT ![d] =
          IF @ # 0 /\ charges[@].stationId = s THEN 0 ELSE @]

TimeoutReset(d, s) ==
  /\ s \in pendingReset[d]
  /\ resetStation(d, s)
  /\ pendingReset' = [pendingReset EXCEPT ![d] = @ \ {s}]
  /\ UNCHANGED <<now, charges, variant, functionsVariant, reminderVars, snap, selectedStation, pc, stripeToken,
                 opStation, opSession, opLocal, settleVars>>

\* ------------------------------------------------------------- navigation
handleTilePress(d, s) ==
  /\ pc[d] = "idle"
  /\ selectedStation' = [selectedStation EXCEPT ![d] = Tile(d, s)]
  /\ UNCHANGED <<now, stations, charges, variant, functionsVariant, reminderVars, snap, pendingSnap, chargeSession, pc,
                 stripeToken, opStation, opSession, opLocal, pendingReset, settleVars>>

\* The write of startNavigation, on the station the handler closed over.
NavigationWrite(d, s) ==
  /\ stations' = [stations EXCEPT ![s] = ReserveFields(@, d)]
  /\ pendingSnap' = AllPending

\* startNavigation, from the "Navigate to Station" button, shown while
\* selectedStation.available.  part_000 writes at once; DriverMapScreen.tsx asks first.
startNavigation(d) ==
  /\ pc[d] = "idle"
  /\ selectedStation[d].id # Null
  /\ selectedStation[d].available
  /\ IF enRouteCount(d) > 0 \/ chargingCount(d) > 0
       THEN UNCHANGED <<stations, pendingSnap, pc, opStation>>
       ELSE IF variant[d] = "part_000"
         THEN /\ NavigationWrite(d, selectedStation[d].id)
              /\ UNCHANGED <<pc, opStation>>
         ELSE /\ pc' = [pc EXCEPT ![d] = "navConfirm"]
              /\ opStation' = [opStation EXCEPT ![d] = selectedStation[d].id]
              /\ UNCHANGED <<stations, pendingSnap>>
  /\ UNCHANGED <<now, charges, variant, functionsVariant, reminderVars, snap, selectedStation, chargeSession,
                 stripeToken, opSession, opLocal, pendingReset, settleVars>>

\* "Yes" in the confirmation of DriverMapScreen.tsx.
ConfirmNavigation(d) ==
  /\ pc[d] = "navConfirm"
  /\ NavigationWrite(d, opStation[d])
  /\ pc' = [pc EXCEPT ![d] = "idle"]
  /\ opStation' = [opStation EXCEPT ![d] = Null]
  /\ UNCHANGED <<now, charges, variant, functionsVariant, reminderVars, snap, selectedStation, chargeSession,
                 stripeToken, opSession, opLocal, pendingReset, settleVars>>

\* "Cancel" in the confirmation.
DismissNavigation(d) ==
  /\ pc[d] = "navConfirm"
  /\ pc' = [pc EXCEPT ![d] = "idle"]
  /\ opStation' = [opStation EXCEPT ![d] = Null]
  /\ UNCHANGED <<now, stations, charges, variant, functionsVariant, reminderVars, snap, pendingSnap, selectedStation,
                 chargeSession, stripeToken, opSession, opLocal, pendingReset, settleVars>>

\* "Cancel Navigation" in the Charges section, shown while the snapshot holds a
\* station en route for this driver.
CancelNavigation(d) ==
  /\ pc[d] = "idle"
  /\ enRouteStation(d) # Null
  /\ IF variant[d] = "part_000"
       THEN resetStation(d, enRouteStation(d))
       ELSE /\ stations' = [stations EXCEPT ![enRouteStation(d)] = CancelFields(@)]
            /\ pendingSnap' = AllPending
            /\ UNCHANGED chargeSession
  /\ UNCHANGED <<now, charges, variant, functionsVariant, reminderVars, snap, selectedStation, pc, stripeToken,
                 opStation, opSession, opLocal, pendingReset, settleVars>>

\* ------------------------------------------------------------------ billing
\* handleSaveBilling (handleCardSubmit in part_000): the payment method is stored
\* in users/{auth.currentUser.uid} and in the local userData.
handleSaveBilling(d) ==
  /\ pc[d] = "idle"
  /\ ~stripeToken[d]
  /\ users' = [users EXCEPT ![uid[d]].stripeToken = TRUE]
  /\ stripeToken' = [stripeToken EXCEPT ![d] = TRUE]
  /\ UNCHANGED <<now, stations, charges, variant, functionsVariant, reminderVars, snap, pendingSnap, selectedStation,
                 chargeSession, pc, opStation, opSession, opLocal, pendingReset, platformEarnings,
                 authPending, captureEv, captured, transferred, ownerPaid, walletCredits>>

\* -------------------------------------------------------------- startCharge
\* Sessions being created by handlers in flight.
CreatingSessions == Cardinality({d \in Drivers : pc[d] = "startCharge"})

\* startCharge with the station update made before the payment method is tested.
startChargeWritesFirst(d, within) ==
  /\ pc[d] = "idle"
  /\ enRouteStation(d) # Null
  /\ selectedStation' = [selectedStation EXCEPT ![d] = Tile(d, enRouteStation(d))]
  /\ IF \/ selectedStation[d].id = Null
        \/ chargingCount(d) > 0
        \/ ~within
       THEN /\ pc' = [pc EXCEPT ![d] = "alert"]
            /\ UNCHANGED <<stations, pendingSnap, opStation>>
       ELSE /\ Len(charges) + CreatingSessions < MaxSessions
            /\ stations' = [stations EXCEPT ![selectedStation[d].id] = ChargingFields(@)]
            /\ pendingSnap' = AllPending
            /\ pc' = [pc EXCEPT ![d] = IF stripeToken[d] THEN "startCharge" ELSE "alert"]
            /\ opStation' = [opStation EXCEPT ![d] =
                               IF stripeToken[d] THEN selectedStation[d].id ELSE @]
  /\ UNCHANGED <<now, charges, variant, functionsVariant, reminderVars, snap, chargeSession, stripeToken, opSession, opLocal,
                 pendingReset, settleVars>>

\* "Start Charge" in the Charges section: setSelectedStation(enRouteStation) and then
\* startCharge(), which still sees the selectedStation of the render it was made in.
\* `within` is distance <= 0.5 mi between userLocation and that station.  A failed
\* test ends in an Alert (the card modal in part_000), which the driver dismisses.
startCharge(d, within) ==
  /\ pc[d] = "idle"
  /\ enRouteStation(d) # Null
  /\ selectedStation' = [selectedStation EXCEPT ![d] = Tile(d, enRouteStation(d))]
  /\ IF \/ selectedStation[d].id = Null
        \/ chargingCount(d) > 0
        \/ ~within
        \/ ~stripeToken[d]
       THEN /\ pc' = [pc EXCEPT ![d] = "alert"]
            /\ UNCHANGED <<stations, pendingSnap, opStation>>
       ELSE /\ Len(charges) + CreatingSessions < MaxSessions
            /\ stations' = [stations EXCEPT ![selectedStation[d].id] = ChargingFields(@)]
            /\ pendingSnap' = AllPending
            /\ pc' = [pc EXCEPT ![d] = "startCharge"]
            /\ opStation' = [opStation EXCEPT ![d] = selectedStation[d].id]
  /\ UNCHANGED <<now, charges, variant, functionsVariant, reminderVars, snap, chargeSession, stripeToken, opSession, opLocal,
                 pendingReset, settleVars>>

\* The Alert (or card modal) of a rejected startCharge is closed.
DismissAlert(d) ==
  /\ pc[d] = "alert"
  /\ pc' = [pc EXCEPT ![d] = "idle"]
  /\ UNCHANGED <<now, stations, charges, variant, functionsVariant, reminderVars, snap, pendingSnap, selectedStation,
                 chargeSession, stripeToken, opStation, opSession, opLocal, pendingReset,
                 settleVars>>

\* The session document of startCharge; part_000 writes no status.
NewSession(d, s) ==
  [stationId |-> s, driverId |-> d, startTime |-> now, endTime |-> 0, totalCost |-> 0,
   status |-> IF variant[d] = "part_000" THEN Null ELSE "pending",
   paymentIntentId |-> FALSE, error |-> Null]

\* chargeRef.set(session), setChargeSession(session); DriverMapScreen.tsx then waits
\* 4 s before it subscribes its listeners again.
CreateSession(d) ==
  /\ pc[d] = "startCharge"
  /\ charges' = Append(charges, NewSession(d, opStation[d]))
  /\ authPending' = authPending \cup {Len(charges) + 1}
  /\ chargeSession' = [chargeSession EXCEPT ![d] = Len(charges) + 1]
  /\ pc' = [pc EXCEPT ![d] = IF variant[d] = "part_000" THEN "idle" ELSE "resubscribe"]
  /\ opStation' = [opStation EXCEPT ![d] = Null]
  /\ UNCHANGED <<now, stations, variant, functionsVariant, reminderVars, snap, pendingSnap, selectedStation, stripeToken,
                 opSession, opLocal, pendingReset, users, platformEarnings, captureEv, captured,
                 transferred, ownerPaid, walletCredits>>

\* The setTimeout(..., 4000) of startCharge: listeners back, isUpdatingState false.
ResubscribeListeners(d) ==
  /\ pc[d] = "resubscribe"
  /\ pc' = [pc EXCEPT ![d] = "idle"]
  /\ pendingSnap' = [pendingSnap EXCEPT ![d] = TRUE]
  /\ UNCHANGED <<now, stations, charges, variant, functionsVariant, reminderVars, snap, selectedStation, chargeSession,
                 stripeToken, opStation, opSession, opLocal, pendingReset, settleVars>>

\* ---------------------------------------------------------------- endCharge
\* duration = (endTime - startTime) / (1000 * 60); totalCost = duration * rate, in cents.
TotalCost(startTime, endTime, s) == ((endTime - startTime) * chargeRate[s]) \div (1000 * 60)

\* ownerShare = totalCost * 0.95, platformShare = totalCost * 0.05
ownerShare(totalCost) == (totalCost * 95) \div 100
platformShare(totalCost) == (totalCost * 5) \div 100

\* update({endTime, totalCost}) on a charges document, and the document-updated
\* event of it when it passes processCharge's guard (!prevData.endTime && data.endTime).
CloseSession(id, endTime, totalCost) ==
  /\ charges' = [charges EXCEPT ![id].endTime = endTime, ![id].totalCost = totalCost]
  /\ captureEv' =
       [captureEv EXCEPT ![id] =
          IF charges[id].endTime = 0 /\ endTime # 0
            THEN [fired |-> TRUE, paymentIntentId |-> charges[id].paymentIntentId,
                  totalCost |-> totalCost, delivered |-> 0]
            ELSE @]

\* "End Charge", shown while chargeSession && selectedStation.  DriverMapScreen.tsx
\* closes the session first; part_000 releases the station first.
\* For a station with networkType 'Out-net' DriverMapScreen.tsx only drops the local
\* chargeSession.
endCharge(d) ==
  /\ pc[d] = "idle"
  /\ chargeSession[d] # 0
  /\ selectedStation[d].id # Null
  /\ IF variant[d] = "part_000"
       THEN /\ stations' = [stations EXCEPT ![selectedStation[d].id] = ResetFields(@)]
            /\ pendingSnap' = AllPending
            /\ opLocal' = [opLocal EXCEPT ![d] = now]
            /\ pc' = [pc EXCEPT ![d] = "close"]
            /\ opStation' = [opStation EXCEPT ![d] = selectedStation[d].id]
            /\ opSession' = [opSession EXCEPT ![d] = chargeSession[d]]
            /\ UNCHANGED <<charges, captureEv, chargeSession>>
       ELSE IF stations[selectedStation[d].id].networkType = "Out-net"
         THEN /\ chargeSession' = [chargeSession EXCEPT ![d] = 0]
              /\ UNCHANGED <<stations, pendingSnap, opLocal, pc, opStation, opSession,
                             charges, captureEv>>
         ELSE /\ CloseSession(chargeSession[d], now,
                              TotalCost(charges[chargeSession[d]].startTime, now,
                                        selectedStation[d].id))
              /\ pc' = [pc EXCEPT ![d] = "release"]
              /\ opStation' = [opStation EXCEPT ![d] = selectedStation[d].id]
              /\ opSession' = [opSession EXCEPT ![d] = chargeSession[d]]
              /\ UNCHANGED <<stations, pendingSnap, opLocal, chargeSession>>
  /\ UNCHANGED <<now, variant, functionsVariant, reminderVars, snap, selectedStation, stripeToken,
                 pendingReset, users, platformEarnings, authPending, captured,
                 transferred, ownerPaid, walletCredits>>

\* The handler in flight is over: its closure is gone.
HandlerDone(d) ==
  /\ pc' = [pc EXCEPT ![d] = "idle"]
  /\ opStation' = [opStation EXCEPT ![d] = Null]
  /\ opSession' = [opSession EXCEPT ![d] = 0]
  /\ opLocal' = [opLocal EXCEPT ![d] = 0]

\* part_000: updateDoc(chargeRef, {endTime, totalCost}), then the local session and
\* selection are dropped.
EndChargeClose(d) ==
  /\ pc[d] = "close"
  /\ CloseSession(opSession[d], opLocal[d],
                  TotalCost(charges[opSession[d]].startTime, opLocal[d], opStation[d]))
  /\ chargeSession' = [chargeSession EXCEPT ![d] = 0]
  /\ selectedStation' = [selectedStation EXCEPT ![d] = NoSelection]
  /\ HandlerDone(d)
  /\ UNCHANGED <<now, stations, variant, functionsVariant, reminderVars, snap, pendingSnap, stripeToken, pendingReset,
                 users, platformEarnings, authPending, captured, transferred, ownerPaid,
                 walletCredits>>

\* DriverMapScreen.tsx: stationRef.update({status: 'available', driverId: null})
EndChargeRelease(d) ==
  /\ pc[d] = "release"
  /\ stations' = [stations EXCEPT ![opStation[d]] = ReleaseFields(@)]
  /\ pendingSnap' = AllPending
  /\ pc' = [pc EXCEPT ![d] = "ownerGet"]
  /\ UNCHANGED <<now, charges, variant, functionsVariant, reminderVars, snap, selectedStation, chargeSession,
                 stripeToken, opStation, opSession, opLocal, pendingReset, settleVars>>

\* ownerSnap = await ownerRef.get(); currentBalance = ownerData.walletBalance || 0
EndChargeOwnerGet(d) ==
  /\ pc[d] = "ownerGet"
  /\ opLocal' = [opLocal EXCEPT ![d] = users[ownerId[opStation[d]]].walletBalance]
  /\ pc' = [pc EXCEPT ![d] = "ownerUpdate"]
  /\ UNCHANGED <<now, stations, charges, variant, functionsVariant, reminderVars, snap, pendingSnap, selectedStation,
                 chargeSession, stripeToken, opStation, opSession, pendingReset,
                 settleVars>>

\* await ownerRef.update({walletBalance: currentBalance + ownerShare})
EndChargeOwnerUpdate(d) ==
  /\ pc[d] = "ownerUpdate"
  /\ users' = [users EXCEPT ![ownerId[opStation[d]]].walletBalance =
                 opLocal[d] + ownerShare(charges[opSession[d]].totalCost)]
  /\ walletCredits' = [walletCredits EXCEPT ![opSession[d]] = @ + 1]
  /\ pc' = [pc EXCEPT ![d] = "platform"]
  /\ opLocal' = [opLocal EXCEPT ![d] = 0]
  /\ UNCHANGED <<now, stations, charges, variant, functionsVariant, reminderVars, snap, pendingSnap, selectedStation,
                 chargeSession, stripeToken, opStation, opSession, pendingReset,
                 platformEarnings, authPending, captureEv, captured, transferred, ownerPaid>>

\* platformEarningRef.set({chargeId, amount: platformShare, timestamp: endTime}),
\* then setChargeSession(null).
EndChargePlatform(d) ==
  /\ pc[d] = "platform"
  /\ platformEarnings' =
       [platformEarnings EXCEPT ![opSession[d]] =
          [amount |-> platformShare(charges[opSession[d]].totalCost),
           timestamp |-> charges[opSession[d]].endTime]]
  /\ chargeSession' = [chargeSession EXCEPT ![d] = 0]
  /\ HandlerDone(d)
  /\ UNCHANGED <<now, stations, charges, variant, functionsVariant, reminderVars, snap, pendingSnap, selectedStation,
                 stripeToken, pendingReset, users, authPending, captureEv,
                 captured, transferred, ownerPaid, walletCredits>>

\* An awaited remote call of the handler in flight rejects: the handler's catch
\* shows the error and nothing after the call runs.
RemoteCallFails(d) ==
  /\ pc[d] \in {"startCharge", "close", "release", "ownerGet", "ownerUpdate", "platform"}
  /\ HandlerDone(d)
  /\ UNCHANGED <<now, stations, charges, variant, functionsVariant, reminderVars, snap, pendingSnap, selectedStation,
                 chargeSession, stripeToken, pendingReset, settleVars>>

\* ------------------------------------------------------- end-charge reminder
\* DriverMapScreen.tsx registers the "End charge notification dialog" effect this
\* many times, each with the same dependencies and the same body.
ReminderEffects == 3

\* A location update from watchPositionAsync sets userLocation, and every effect
\* that depends on it runs again.  `far` is distance > 0.5 mi between the new
\* location and selectedStation.  Each alert's "End Charge" button keeps the
\* endCharge of the render the effect ran in.
LocationUpdate(d, far) ==
  /\ variant[d] = "DriverMapScreen"
  /\ Len(reminders[d]) < MaxLocationUpdates * ReminderEffects
  /\ reminders' =
       [reminders EXCEPT ![d] =
          IF \/ selectedStation[d].id = Null
             \/ hasShownEndChargeDialog[d]
             \/ chargeSession[d] = 0
             \/ ~far
            THEN @
            ELSE @ \o [i \in 1..ReminderEffects |->
                        [session |-> chargeSession[d], station |-> selectedStation[d].id]]]
  /\ UNCHANGED <<now, stations, charges, variant, functionsVariant, clientVars, settleVars,
                 hasShownEndChargeDialog>>

\* "OK" on the oldest alert: hasShownEndChargeDialog becomes true.
ReminderOK(d) ==
  /\ reminders[d] # <<>>
  /\ reminders' = [reminders EXCEPT ![d] = Tail(@)]
  /\ hasShownEndChargeDialog' = [hasShownEndChargeDialog EXCEPT ![d] = TRUE]
  /\ UNCHANGED <<now, stations, charges, variant, functionsVariant, clientVars, settleVars>>

\* "End Charge" on the oldest alert: endCharge() of the render the alert was made
\* in, with that render's chargeSession and selectedStation, up to its first await.
ReminderEndCharge(d) ==
  /\ reminders[d] # <<>>
  /\ pc[d] = "idle"
  /\ reminders' = [reminders EXCEPT ![d] = Tail(@)]
  /\ LET shown == Head(reminders[d])
     IN IF stations[shown.station].networkType = "Out-net"
          THEN /\ chargeSession' = [chargeSession EXCEPT ![d] = 0]
               /\ UNCHANGED <<opStation, opSession, charges, captureEv, pc>>
          ELSE /\ opStation' = [opStation EXCEPT ![d] = shown.station]
               /\ opSession' = [opSession EXCEPT ![d] = shown.session]
               /\ CloseSession(shown.session, now,
                               TotalCost(charges[shown.session].startTime, now,
                                         shown.station))
               /\ pc' = [pc EXCEPT ![d] = "release"]
               /\ UNCHANGED chargeSession
  /\ UNCHANGED <<now, stations, variant, functionsVariant, snap, pendingSnap, selectedStation,
                 stripeToken, opLocal, pendingReset, users, platformEarnings,
                 authPending, captured, transferred, ownerPaid, walletCredits,
                 hasShownEndChargeDialog>>

\* ----------------------------------------------------------- Cloud Functions
\* userSnap.data() of users/{driverId.split('_')[0]}
FunctionsUser(driverId) == users[FunctionsUserKey(driverId)]

\* startChargeProcess without the update of its catch block.
startChargeProcessNoCatch(id, authorized) ==
  /\ functionsVariant = "index.js"
  /\ id \in authPending
  /\ authPending' = authPending \ {id}
  /\ LET user == FunctionsUser(charges[id].driverId)
     IN charges' =
          [charges EXCEPT ![id] =
             IF ~user.exists \/ ~user.stripeToken
               THEN [@ EXCEPT !.status = "failed", !.error = "No payment method"]
               ELSE IF authorized
                 THEN [@ EXCEPT !.paymentIntentId = TRUE, !.status = "authorized"]
                 ELSE @]
  /\ UNCHANGED <<now, stations, variant, functionsVariant, reminderVars, clientVars, users, platformEarnings, captureEv,
                 captured, transferred, ownerPaid, walletCredits>>

\* startChargeProcess, on the creation of a charges document.  `authorized` is the
\* outcome of stripe.paymentIntents.create.
startChargeProcess(id, authorized) ==
  /\ functionsVariant = "index.js"
  /\ id \in authPending
  /\ authPending' = authPending \ {id}
  /\ LET user == FunctionsUser(charges[id].driverId)
     IN charges' =
          [charges EXCEPT ![id] =
             IF ~user.exists \/ ~user.stripeToken
               THEN [@ EXCEPT !.status = "failed", !.error = "No payment method"]
               ELSE IF authorized
                 THEN [@ EXCEPT !.paymentIntentId = TRUE, !.status = "authorized"]
                 ELSE [@ EXCEPT !.status = "failed", !.error = "stripe"]]
  /\ UNCHANGED <<now, stations, variant, functionsVariant, reminderVars, clientVars, users, platformEarnings, captureEv,
                 captured, transferred, ownerPaid, walletCredits>>

\* amount = Math.round(totalCost * 100), in cents; platformCut = Math.round(amount * 0.05)
amount(totalCost) == totalCost
platformCut(amt) == (amt * 5 + 50) \div 100
ownerCut(amt) == amt - platformCut(amt)

\* processCharge that puts the station back to charging when the capture fails.
processChargeHoldsStation(id, confirmed, sent) ==
  /\ functionsVariant = "index.js"
  /\ captureEv[id].fired
  /\ captureEv[id].delivered < MaxDeliveries
  /\ captureEv' = [captureEv EXCEPT ![id].delivered = @ + 1]
  /\ LET user == FunctionsUser(charges[id].driverId)
     IN IF user.exists /\ user.stripeToken /\ captureEv[id].paymentIntentId /\ confirmed
          THEN /\ captured' = [captured EXCEPT ![id] = @ + 1]
               /\ charges' = [charges EXCEPT ![id].status = "completed"]
               /\ UNCHANGED stations
          ELSE /\ charges' = [charges EXCEPT ![id].status = "failed"]
               /\ stations' = [stations EXCEPT ![charges[id].stationId].status = "charging"]
               /\ UNCHANGED captured
  /\ UNCHANGED <<now, variant, functionsVariant, reminderVars, clientVars, users, platformEarnings, authPending,
                 transferred, ownerPaid, walletCredits>>

\* processCharge, on one delivery of the update that set endTime.  `confirmed` and
\* `sent` are the outcomes of paymentIntents.update/confirm and of transfers.create.
processCharge(id, confirmed, sent) ==
  /\ functionsVariant = "index.js"
  /\ captureEv[id].fired
  /\ captureEv[id].delivered < MaxDeliveries
  /\ captureEv' = [captureEv EXCEPT ![id].delivered = @ + 1]
  /\ LET user == FunctionsUser(charges[id].driverId)
         payout == ownerStripeId[charges[id].stationId]
     IN IF ~user.exists
          THEN \* user.stripeToken of undefined: the function throws before any write
               UNCHANGED <<charges, captured, transferred, ownerPaid>>
          ELSE IF ~user.stripeToken \/ ~captureEv[id].paymentIntentId
            THEN /\ charges' = [charges EXCEPT ![id].status = "failed",
                                               ![id].error = "Missing payment details"]
                 /\ UNCHANGED <<captured, transferred, ownerPaid>>
            ELSE /\ captured' = [captured EXCEPT ![id] = IF confirmed THEN @ + 1 ELSE @]
                 /\ transferred' =
                      [transferred EXCEPT ![id] =
                         IF confirmed /\ payout /\ sent THEN @ + 1 ELSE @]
                 /\ ownerPaid' =
                      [ownerPaid EXCEPT ![id] =
                         IF confirmed /\ payout /\ sent
                           THEN @ + ownerCut(amount(captureEv[id].totalCost))
                           ELSE @]
                 /\ charges' =
                      [charges EXCEPT ![id] =
                         IF confirmed /\ (payout => sent)
                           THEN [@ EXCEPT !.status = "completed"]
                           ELSE [@ EXCEPT !.status = "failed", !.error = "stripe"]]
  /\ UNCHANGED <<now, stations, variant, functionsVariant, reminderVars, clientVars, users, platformEarnings,
                 authPending, walletCredits>>

\* part_005: platformCut = Math.round(amount * 0.97); ownerCut = amount - platformCut
platformCutPart005(amt) == (amt * 97 + 50) \div 100
ownerCutPart005(amt) == amt - platformCutPart005(amt)

\* processCharge as part_005 has it, on one delivery of the update that set endTime:
\* it creates and confirms the payment intent itself (`charged`), transfers
\* ownerCut when the station has an ownerStripeId (`sent`), and writes no document.
processChargePart005(id, charged, sent) ==
  /\ functionsVariant = "part_005"
  /\ captureEv[id].fired
  /\ captureEv[id].delivered < MaxDeliveries
  /\ captureEv' = [captureEv EXCEPT ![id].delivered = @ + 1]
  /\ LET user == FunctionsUser(charges[id].driverId)
         payout == ownerStripeId[charges[id].stationId]
     IN IF ~user.exists \/ ~user.stripeToken
          THEN \* throws on user.stripeToken, or returns null: no call to Stripe
               UNCHANGED <<captured, transferred, ownerPaid>>
          ELSE /\ captured' = [captured EXCEPT ![id] = IF charged THEN @ + 1 ELSE @]
               /\ transferred' =
                    [transferred EXCEPT ![id] =
                       IF charged /\ payout /\ sent THEN @ + 1 ELSE @]
               /\ ownerPaid' =
                    [ownerPaid EXCEPT ![id] =
                       IF charged /\ payout /\ sent
                         THEN @ + ownerCutPart005(amount(captureEv[id].totalCost))
                         ELSE @]
  /\ UNCHANGED <<now, stations, charges, variant, functionsVariant, reminderVars, clientVars, users,
                 platformEarnings, authPending, walletCredits>>

\* ------------------------------------------------------------ specification
\* The whole system: both screens, the clock, and the Cloud Functions.
Next ==
  \/ Tick
  \/ \E d \in Drivers : StationsListener(d)
  \/ \E d \in Drivers, s \in Stations : TimeoutReset(d, s)
  \/ \E d \in Drivers, s \in Stations : handleTilePress(d, s)
  \/ \E d \in Drivers : startNavigation(d)
  \/ \E d \in Drivers : ConfirmNavigation(d)
  \/ \E d \in Drivers : DismissNavigation(d)
  \/ \E d \in Drivers : CancelNavigation(d)
  \/ \E d \in Drivers : handleSaveBilling(d)
  \/ \E d \in Drivers, within \in BOOLEAN : startCharge(d, within)
  \/ \E d \in Drivers : DismissAlert(d)
  \/ \E d \in Drivers : CreateSession(d)
  \/ \E d \in Drivers : ResubscribeListeners(d)
  \/ \E d \in Drivers : endCharge(d)
  \/ \E d \in Drivers : EndChargeClose(d)
  \/ \E d \in Drivers : EndChargeRelease(d)
  \/ \E d \in Drivers : EndChargeOwnerGet(d)
  \/ \E d \in Drivers : EndChargeOwnerUpdate(d)
  \/ \E d \in Drivers : EndChargePlatform(d)
  \/ \E d \in Drivers : RemoteCallFails(d)
  \/ \E d \in Drivers, far \in BOOLEAN : LocationUpdate(d, far)
  \/ \E d \in Drivers : ReminderOK(d)
  \/ \E d \in Drivers : ReminderEndCharge(d)
  \/ \E id \in SessionIds, authorized \in BOOLEAN : startChargeProcess(id, authorized)
  \/ \E id \in SessionIds, confirmed \in BOOLEAN, sent \in BOOLEAN :
       processCharge(id, confirmed, sent)
  \/ \E id \in SessionIds, charged \in BOOLEAN, sent \in BOOLEAN :
       processChargePart005(id, charged, sent)

Spec == Init /\ [][Next]_vars

(***************************************************************************)
(* The claims are checked under the specifications below.  Each starts in  *)
(* the initial state of the system and takes steps of Next only, for some  *)
(* of the drivers, tiles and handlers: every behaviour of one of them is a *)
(* behaviour of Spec (up to the documents Init leaves open), so what they  *)
(* reach the system reaches.                                               *)
(***************************************************************************)

\* All drivers have a card on file; the Cloud Functions find no users document.
InitCards(variants) ==
  /\ InitClients
  /\ InitStore
  /\ InitFunctions({"index.js"})
  /\ variant \in variants
  /\ InitUsers(Drivers, FALSE)

\* Reservation: both drivers, both stations, the navigation handlers of both screens.
NextReserve ==
  \/ \E d \in Drivers : StationsListener(d)
  \/ \E d \in Drivers, s \in Stations : handleTilePress(d, s)
  \/ \E d \in Drivers : startNavigation(d)
  \/ \E d \in Drivers : ConfirmNavigation(d)
  \/ \E d \in Drivers : DismissNavigation(d)
  \/ \E d \in Drivers : CancelNavigation(d)

SpecReserve == InitCards([Drivers -> Variants]) /\ [][NextReserve]_vars

\* Charging: d1 only navigates, and only to s1; d2 navigates to either station,
\* starts one charge and ends it.
NextCharge ==
  \/ \E d \in Drivers : StationsListener(d)
  \/ handleTilePress("d1", "s1")
  \/ \E s \in Stations : handleTilePress("d2", s)
  \/ \E d \in Drivers : startNavigation(d)
  \/ \E d \in Drivers : ConfirmNavigation(d)
  \/ \E d \in Drivers : DismissNavigation(d)
  \/ \E d \in Drivers : CancelNavigation(d)
  \/ \E within \in BOOLEAN : Len(charges) < 1 /\ startCharge("d2", within)
  \/ DismissAlert("d2")
  \/ CreateSession("d2")
  \/ ResubscribeListeners("d2")
  \/ endCharge("d2")
  \/ EndChargeClose("d2")
  \/ EndChargeRelease("d2")
  \/ EndChargeOwnerGet("d2")
  \/ EndChargeOwnerUpdate("d2")
  \/ EndChargePlatform("d2")

SpecCharge == InitCards([Drivers -> Variants]) /\ [][NextCharge]_vars

\* Sessions: d2 alone, navigating and starting charges, on either screen.
NextSessions ==
  \/ StationsListener("d2")
  \/ \E s \in Stations : handleTilePress("d2", s)
  \/ startNavigation("d2")
  \/ ConfirmNavigation("d2")
  \/ DismissNavigation("d2")
  \/ CancelNavigation("d2")
  \/ \E within \in BOOLEAN : startCharge("d2", within)
  \/ DismissAlert("d2")
  \/ CreateSession("d2")
  \/ ResubscribeListeners("d2")

SpecSessions ==
  /\ InitCards({v \in [Drivers -> Variants] : v["d1"] = "DriverMapScreen"})
  /\ [][NextSessions]_vars

\* Billing: d2 alone, signed up without a payment method, navigating, saving a
\* card and starting charges, on either screen.
NextBilling ==
  \/ NextSessions
  \/ handleSaveBilling("d2")

InitBilling ==
  /\ InitClients
  /\ InitStore
  /\ InitFunctions({"index.js"})
  /\ variant \in {v \in [Drivers -> Variants] : v["d1"] = "DriverMapScreen"}
  /\ InitUsers({}, FALSE)

SpecBilling == InitBilling /\ [][NextBilling]_vars

\* Retry: d1 alone runs one session on either screen; a station or session write
\* of the handler in flight may reject, and the driver may press the button again.
NextRetry ==
  \/ now < 2 * TickMs /\ Tick
  \/ StationsListener("d1")
  \/ \E s \in Stations : handleTilePress("d1", s)
  \/ startNavigation("d1")
  \/ ConfirmNavigation("d1")
  \/ \E within \in BOOLEAN : Len(charges) < 1 /\ startCharge("d1", within)
  \/ DismissAlert("d1")
  \/ CreateSession("d1")
  \/ ResubscribeListeners("d1")
  \/ endCharge("d1")
  \/ EndChargeClose("d1")
  \/ EndChargeRelease("d1")
  \/ EndChargeOwnerGet("d1")
  \/ EndChargeOwnerUpdate("d1")
  \/ EndChargePlatform("d1")
  \/ pc["d1"] \in {"startCharge", "close", "release"} /\ RemoteCallFails("d1")

SpecRetry ==
  /\ InitCards({v \in [Drivers -> Variants] : v["d2"] = "DriverMapScreen"})
  /\ [][NextRetry]_vars

\* Settlement: d1 alone runs one session from navigation to its end, on either
\* screen, while the Cloud Functions run and the clock advances once.
InitSettle ==
  /\ InitClients
  /\ InitStore
  /\ InitFunctions({"index.js"})
  /\ variant \in {v \in [Drivers -> Variants] : v["d2"] = "DriverMapScreen"}
  /\ \E provisioned \in BOOLEAN : InitUsers(Drivers, provisioned)

NextSettle ==
  \/ now < 2 * TickMs /\ Tick
  \/ StationsListener("d1")
  \/ \E s \in Stations : handleTilePress("d1", s)
  \/ startNavigation("d1")
  \/ ConfirmNavigation("d1")
  \/ DismissNavigation("d1")
  \/ CancelNavigation("d1")
  \/ \E within \in BOOLEAN : Len(charges) < 1 /\ startCharge("d1", within)
  \/ DismissAlert("d1")
  \/ CreateSession("d1")
  \/ ResubscribeListeners("d1")
  \/ endCharge("d1")
  \/ EndChargeClose("d1")
  \/ EndChargeRelease("d1")
  \/ EndChargeOwnerGet("d1")
  \/ EndChargeOwnerUpdate("d1")
  \/ EndChargePlatform("d1")
  \/ \E id \in SessionIds, authorized \in BOOLEAN : startChargeProcess(id, authorized)
  \/ \E id \in SessionIds, confirmed \in BOOLEAN, sent \in BOOLEAN :
       processCharge(id, confirmed, sent)

SpecSettle == InitSettle /\ [][NextSettle]_vars

\* Settlement with the triggers scheduled: Cloud Functions runs startChargeProcess
\* for every created session and delivers every update event at least once; a
\* second delivery may or may not happen.  A handler in flight runs on to its end
\* and a snapshot is delivered; what the driver presses is up to the driver.
FirstDelivery(id) ==
  \E confirmed \in BOOLEAN, sent \in BOOLEAN :
    captureEv[id].delivered = 0 /\ processCharge(id, confirmed, sent)

HandlerStep(d) ==
  \/ StationsListener(d)
  \/ CreateSession(d)
  \/ ResubscribeListeners(d)
  \/ EndChargeClose(d)
  \/ EndChargeRelease(d)
  \/ EndChargeOwnerGet(d)
  \/ EndChargeOwnerUpdate(d)
  \/ EndChargePlatform(d)

SpecCapture ==
  /\ InitSettle
  /\ [][NextSettle]_vars
  /\ WF_vars(HandlerStep("d1"))
  /\ \A id \in SessionIds :
       /\ WF_vars(\E authorized \in BOOLEAN : startChargeProcess(id, authorized))
       /\ WF_vars(FirstDelivery(id))

\* Settlement under either deployment of processCharge: index.js or part_005.
InitDeployed ==
  /\ InitClients
  /\ InitStore
  /\ InitFunctions(FunctionsVariants)
  /\ variant \in {v \in [Drivers -> Variants] : v["d2"] = "DriverMapScreen"}
  /\ InitUsers(Drivers, TRUE)

NextDeployed ==
  \/ NextSettle
  \/ \E id \in SessionIds, charged \in BOOLEAN, sent \in BOOLEAN :
       processChargePart005(id, charged, sent)

SpecDeployed == InitDeployed /\ [][NextDeployed]_vars

\* Reminder: d1 alone on DriverMapScreen.tsx runs sessions at s1 while location
\* updates arrive and the clock advances once.
NextReminder ==
  \/ now < 2 * TickMs /\ Tick
  \/ StationsListener("d1")
  \/ handleTilePress("d1", "s1")
  \/ startNavigation("d1")
  \/ ConfirmNavigation("d1")
  \/ \E within \in BOOLEAN : startCharge("d1", within)
  \/ DismissAlert("d1")
  \/ CreateSession("d1")
  \/ ResubscribeListeners("d1")
  \/ endCharge("d1")
  \/ EndChargeRelease("d1")
  \/ EndChargeOwnerGet("d1")
  \/ EndChargeOwnerUpdate("d1")
  \/ EndChargePlatform("d1")
  \/ \E far \in BOOLEAN : LocationUpdate("d1", far)
  \/ ReminderOK("d1")
  \/ ReminderEndCharge("d1")

SpecReminder == InitCards({[d \in Drivers |-> "DriverMapScreen"]}) /\ [][NextReminder]_vars

\* Wallet: both drivers on DriverMapScreen.tsx, d1 at s1 and d2 at s2 (stations of
\* the same owner), each running one session to its end.
NextWallet ==
  \/ now < 2 * TickMs /\ Tick
  \/ \E d \in Drivers : StationsListener(d)
  \/ handleTilePress("d1", "s1")
  \/ handleTilePress("d2", "s2")
  \/ \E d \in Drivers : startNavigation(d)
  \/ \E d \in Drivers : ConfirmNavigation(d)
  \/ \E d \in Drivers, within \in BOOLEAN : startCharge(d, within)
  \/ \E d \in Drivers : DismissAlert(d)
  \/ \E d \in Drivers : CreateSession(d)
  \/ \E d \in Drivers : ResubscribeListeners(d)
  \/ \E d \in Drivers : endCharge(d)
  \/ \E d \in Drivers : EndChargeRelease(d)
  \/ \E d \in Drivers : EndChargeOwnerGet(d)
  \/ \E d \in Drivers : EndChargeOwnerUpdate(d)
  \/ \E d \in Drivers : EndChargePlatform(d)

SpecWallet == InitCards({[d \in Drivers |-> "DriverMapScreen"]}) /\ [][NextWallet]_vars

\* Timeout: reservation with the clock running.  A delivered snapshot is handled,
\* a started resetStation writes, and time passes; what a driver presses is up to
\* the driver.
NextTimeout ==
  \/ Tick
  \/ \E d \in Drivers : StationsListener(d)
  \/ \E d \in Drivers, s \in Stations : TimeoutReset(d, s)
  \/ \E d \in Drivers, s \in Stations : handleTilePress(d, s)
  \/ \E d \in Drivers : startNavigation(d)
  \/ \E d \in Drivers : ConfirmNavigation(d)
  \/ \E d \in Drivers : DismissNavigation(d)
  \/ \E d \in Drivers : CancelNavigation(d)

SpecTimeout ==
  /\ InitCards([Drivers -> Variants])
  /\ [][NextTimeout]_vars
  /\ WF_vars(Tick)
  /\ \A d \in Drivers : WF_vars(StationsListener(d))
  /\ \A d \in Drivers, s \in Stations : WF_vars(TimeoutReset(d, s))

\* Out of network: d1 alone runs one session on either screen; s2 is an
\* out-of-network charger.
InitOutNet ==
  /\ InitClients
  /\ InitStations({"s2"})
  /\ InitCollections
  /\ InitFunctions({"index.js"})
  /\ variant \in {v \in [Drivers -> Variants] : v["d2"] = "DriverMapScreen"}
  /\ InitUsers(Drivers, FALSE)

NextOutNet ==
  \/ now < 2 * TickMs /\ Tick
  \/ StationsListener("d1")
  \/ \E s \in Stations : handleTilePress("d1", s)
  \/ startNavigation("d1")
  \/ ConfirmNavigation("d1")
  \/ \E within \in BOOLEAN : Len(charges) < 1 /\ startCharge("d1", within)
  \/ DismissAlert("d1")
  \/ CreateSession("d1")
  \/ ResubscribeListeners("d1")
  \/ endCharge("d1")
  \/ EndChargeClose("d1")
  \/ EndChargeRelease("d1")
  \/ EndChargeOwnerGet("d1")
  \/ EndChargeOwnerUpdate("d1")
  \/ EndChargePlatform("d1")

SpecOutNet == InitOutNet /\ [][NextOutNet]_vars

\* Expiry: d2 navigates to s1 and starts a charge there while the clock runs and
\* the stations listeners of both clients handle snapshots.
NextExpiry ==
  \/ Tick
  \/ \E d \in Drivers : StationsListener(d)
  \/ \E d \in Drivers, s \in Stations : TimeoutReset(d, s)
  \/ handleTilePress("d2", "s1")
  \/ startNavigation("d2")
  \/ ConfirmNavigation("d2")
  \/ \E within \in BOOLEAN : Len(charges) < 1 /\ startCharge("d2", within)
  \/ DismissAlert("d2")
  \/ CreateSession("d2")
  \/ ResubscribeListeners("d2")

SpecExpiry == InitCards([Drivers -> Variants]) /\ [][NextExpiry]_vars

\* ------------------------------------------------------------ claims
Occupied(st) == st.status \in {"enRoute", "charging"}

\* C1: a reservation of a station that is not available writes nothing: the
\* station stays occupied by the driver who reserved it first, so of two drivers
\* reserving the same station at most one succeeds.
C1_ReserveKeepsOccupant ==
  [][\A s \in Stations :
       stations[s].status # "available" =>
         stations'[s].driverId \in {stations[s].driverId, Null}]_vars

\* C2: a station is available exactly when it has no occupying driver, and an
\* enRoute or charging station always has one.
C2_AvailableIffNoDriver ==
  \A s \in Stations :
    /\ stations[s].status = "available" <=> stations[s].driverId = Null
    /\ Occupied(stations[s]) => stations[s].driverId \in Drivers

\* C3: startCharge moves a station to charging, and creates a session, only when
\* the station is enRoute and its occupying driver is the caller.
C3_ChargeOnlyOwnReservation ==
  [][\A d \in Drivers :
       (pc[d] = "idle" /\ pc'[d] = "startCharge") =>
         /\ stations[opStation'[d]].status = "enRoute"
         /\ stations[opStation'[d]].driverId = d]_vars

\* C4: a driver occupies at most one station (enRoute or charging) at any time.
C4_OneStationPerDriver ==
  \A d \in Drivers :
    Cardinality({s \in Stations :
                   stations[s].driverId = d /\ Occupied(stations[s])}) <= 1

\* C5: a driver has at most one session that is pending or authorized.
C5_OneActiveSessionPerDriver ==
  \A d \in Drivers :
    Cardinality({id \in 1..Len(charges) :
                   /\ charges[id].driverId = d
                   /\ charges[id].status \in {"pending", "authorized"}}) <= 1

\* C6: a second delivery of the capture trigger for a session the first delivery
\* completed is a no-op: it captures nothing, transfers nothing and leaves the
\* session completed.
C6_RedeliveryIsNoOp ==
  [][\A id \in 1..Len(charges) :
       (/\ charges[id].status = "completed"
        /\ captureEv[id].delivered >= 1
        /\ captureEv'[id].delivered = captureEv[id].delivered + 1) =>
         UNCHANGED <<charges, captured, transferred, users>>]_vars

\* C7: once a session is completed or failed, no step changes any of its fields.
C7_TerminalIsImmutable ==
  [][\A id \in 1..Len(charges) :
       charges[id].status \in {"completed", "failed"} =>
         charges'[id] = charges[id]]_vars

\* C8: a session of positive cost whose capture succeeded and whose endCharge has
\* returned has its owner share paid exactly once: by a transfer when the owner
\* has a payout destination, by a wallet credit otherwise.
C8_OwnerPaidOnce ==
  \A id \in 1..Len(charges) :
    (/\ charges[id].status = "completed"
     /\ charges[id].totalCost > 0
     /\ \A d \in Drivers : chargeSession[d] # id /\ opSession[d] # id) =>
       IF ownerStripeId[charges[id].stationId]
         THEN transferred[id] = 1 /\ walletCredits[id] = 0
         ELSE transferred[id] = 0 /\ walletCredits[id] = 1

RECURSIVE CreditedShares(_)
CreditedShares(n) ==
  IF n = 0 THEN 0
  ELSE CreditedShares(n - 1) + walletCredits[n] * ownerShare(charges[n].totalCost)

\* C9: the owner's wallet balance is the sum of the owner shares credited to it:
\* no credit is lost when two sessions of the same owner close concurrently.
C9_NoLostCredit ==
  users["o1"].walletBalance = CreditedShares(Len(charges))

\* C10: no station stays enRoute past the timeout for ever: a reservation older
\* than EnRouteTimeoutMs is eventually released.
C10_ExpiredIsReleased ==
  \A s \in Stations : []<>(~Expired(stations[s]))

Terminal(id) == charges[id].status \in {"completed", "failed"}

\* C11: every closed session ends in a terminal status: from some point on, a
\* session with endTime recorded is completed or failed, and stays so.
C11_ClosedBecomesTerminal ==
  \A id \in SessionIds :
    <>[]((id \in 1..Len(charges) /\ charges[id].endTime # 0) => Terminal(id))

C13_RejectedStartChargeWritesNothing ==
  [][\A d \in Drivers :
       /\ (pc[d] = "idle" /\ pc'[d] = "alert") =>
            /\ stations' = stations
            /\ charges' = charges
            /\ authPending' = authPending
       /\ (pc[d] = "idle" /\ pc'[d] = "startCharge") =>
            /\ chargingCount(d) = 0
            /\ stripeToken[d]]_vars

\* startCharge has rejected a driver en route who has no payment method: the
\* station is still enRoute for the driver and there is no session.
C13_Witness ==
  \E d \in Drivers :
    /\ pc[d] = "alert"
    /\ ~stripeToken[d]
    /\ \E s \in Stations : stations[s].status = "enRoute" /\ stations[s].driverId = d
    /\ \A s \in Stations : stations[s].status # "charging"
    /\ charges = <<>>

\* C14: the release of endCharge is written whatever the state of the settlement,
\* and no run of startChargeProcess or processCharge changes a station.
C14_ReleaseNotBlockedBySettlement ==
  [][/\ \A d \in Drivers :
          /\ (pc[d] = "release" /\ pc'[d] = "ownerGet") =>
               stations'[opStation[d]].status = "available"
          /\ (pc[d] = "idle" /\ pc'[d] = "close") =>
               stations'[selectedStation[d].id].status = "available"
     /\ (authPending' # authPending \/ captureEv' # captureEv \/ captured' # captured
         \/ transferred' # transferred
         \/ \E id \in 1..Len(charges) : charges'[id].status # charges[id].status) =>
          stations' = stations]_vars

\* endCharge has returned, the capture of the closed session has failed, and the
\* station of the session is available.
C14_Witness ==
  \E id \in 1..Len(charges) :
    /\ charges[id].endTime # 0
    /\ stations[charges[id].stationId].status = "available"
    /\ \A d \in Drivers : pc[d] = "idle" /\ chargeSession[d] = 0
    /\ captureEv[id].delivered >= 1
    /\ charges[id].status = "failed"

\* C15: the endTime of a session is never before its startTime, and once endTime
\* and totalCost are recorded no step changes them.
C15_ClosedOnce ==
  [][\A id \in 1..Len(charges) :
       /\ charges'[id].endTime # 0 => charges'[id].endTime >= charges'[id].startTime
       /\ charges[id].endTime # 0 =>
            /\ charges'[id].endTime = charges[id].endTime
            /\ charges'[id].totalCost = charges[id].totalCost]_vars

Released(st) == st.status = "available" /\ st.driverId = Null

\* C16: each release write (endCharge, Cancel Navigation, resetStation) releases a
\* station from every status, and written twice gives the record it gives written
\* once.
C16_ReleaseIdempotent ==
  \A s \in Stations :
    LET st == stations[s]
    IN /\ Released(ReleaseFields(st)) /\ ReleaseFields(ReleaseFields(st)) = ReleaseFields(st)
       /\ Released(CancelFields(st)) /\ CancelFields(CancelFields(st)) = CancelFields(st)
       /\ Released(ResetFields(st)) /\ ResetFields(ResetFields(st)) = ResetFields(st)

\* endCharge of DriverMapScreen.tsx has released a station that was charging, and
\* the driver's snapshot still shows it en route: Cancel Navigation would release
\* it a second time.
C16_Witness ==
  \E d \in Drivers, s \in Stations :
    /\ variant[d] = "DriverMapScreen"
    /\ pc[d] = "idle"
    /\ enRouteStation(d) = s
    /\ Released(stations[s])
    /\ ~stations[s].available
    /\ \E id \in 1..Len(charges) : charges[id].stationId = s /\ charges[id].endTime # 0

\* C17: when a session of positive cost at a station without payout destination
\* has been closed and endCharge has returned, the owner's wallet has grown by the owner share
\* (95% of totalCost) and platform_earnings holds the record of the session with
\* the platform share (5%) as amount.  (The wallet starts at 0 and SpecSettle runs
\* one session.)
C17_WalletShareAndPlatformRecord ==
  \A id \in 1..Len(charges) :
    (/\ charges[id].endTime # 0
     /\ charges[id].totalCost > 0
     /\ ~ownerStripeId[charges[id].stationId]
     /\ \A d \in Drivers : chargeSession[d] # id /\ opSession[d] # id) =>
       /\ users[ownerId[charges[id].stationId]].walletBalance =
            ownerShare(charges[id].totalCost)
       /\ platformEarnings[id] =
            [amount |-> platformShare(charges[id].totalCost),
             timestamp |-> charges[id].endTime]

\* C18: the totalCost recorded when a session is closed is its duration in minutes
\* times the per-minute rate of the session's station.
C18_TotalCostIsDurationTimesRate ==
  [][\A id \in 1..Len(charges) :
       (charges[id].endTime = 0 /\ charges'[id].endTime # 0) =>
         charges'[id].totalCost =
           TotalCost(charges[id].startTime, charges'[id].endTime, charges[id].stationId)]_vars

\* C19: a Cancel Navigation step never releases a station that has meanwhile moved
\* to charging or that another driver holds: the station it writes is, in the
\* store, neither charging nor held by a driver other than the one who cancels.
C19_CancelNeverReleasesChargingOrForeign ==
  [][\A d \in Drivers :
       CancelNavigation(d) =>
         /\ stations[enRouteStation(d)].status # "charging"
         /\ stations[enRouteStation(d)].driverId \in {d, Null}]_vars

\* round(amount x 0.05) and the owner's 95%: what is left of the amount.
PlatformShare5(amt) == (amt * 5 + 50) \div 100
OwnerShare95(amt) == amt - PlatformShare5(amt)

\* C20: for the amount of every closed session, under either deployment of
\* processCharge, platform share + owner share = amount, and every transfer made
\* to the owner is the 95% owner share of that amount.
C20_OwnerTransferIs95Percent ==
  \A id \in SessionIds :
    captureEv[id].fired =>
      LET amt == amount(captureEv[id].totalCost)
      IN /\ platformCut(amt) + ownerCut(amt) = amt
         /\ platformCutPart005(amt) + ownerCutPart005(amt) = amt
         /\ ownerPaid[id] = transferred[id] * OwnerShare95(amt)

\* C21: the release at the end of a startCharge -> endCharge cycle sets all four
\* fields: the released station has status available, no driver, no en-route
\* timestamp and available = TRUE, as a station nobody has reserved yet.
C21_ReleaseSetsAllFourFields ==
  [][\A d \in Drivers :
       /\ EndChargeRelease(d) => stations'[opStation[d]] = NewStation
       /\ (variant[d] = "part_000" /\ endCharge(d)) =>
            stations'[selectedStation[d].id] = NewStation]_vars

\* The station of session id is still held for that session: charging, for its driver.
HeldForSession(id) ==
  /\ stations[charges[id].stationId].status = "charging"
  /\ stations[charges[id].stationId].driverId = charges[id].driverId

\* C22: endCharge closes the session, then releases the station, then the capture
\* runs: the write that closes a session finds its station still held, and
\* processCharge never runs for a session whose station is still held.
C22_CloseThenReleaseThenCapture ==
  [][\A id \in 1..Len(charges) :
       /\ (charges[id].endTime = 0 /\ charges'[id].endTime # 0) => HeldForSession(id)
       /\ (\E confirmed \in BOOLEAN, sent \in BOOLEAN : processCharge(id, confirmed, sent))
            => ~HeldForSession(id)]_vars

\* C23: a session of positive cost whose settlement failed, for a driver whose
\* record the Cloud Functions find, has produced neither a platform_earnings record
\* nor a credit of the owner's wallet.
C23_FailedSessionCreditsNothing ==
  \A id \in 1..Len(charges) :
    (/\ charges[id].status = "failed"
     /\ charges[id].totalCost > 0
     /\ FunctionsUser(charges[id].driverId).exists) =>
      /\ platformEarnings[id] = NoEarning
      /\ walletCredits[id] = 0

\* C24: the platform ledger is append-only: once the platform_earnings record of a
\* session is written, no step changes its amount or its timestamp, however often
\* endCharge runs for the session.
C24_LedgerRecordNeverOverwritten ==
  [][\A id \in SessionIds :
       platformEarnings[id] # NoEarning => platformEarnings'[id] = platformEarnings[id]]_vars

\* The End Charge Notification alerts on d's screen that were surfaced for session id.
SurfacedFor(d, id) == {i \in 1..Len(reminders[d]) : reminders[d][i].session = id}

\* C25: while the driver has not acknowledged it, the end-charge reminder of a
\* session is on screen at most once, however many location updates arrive.
C25_ReminderSurfacedOnce ==
  \A d \in Drivers, id \in SessionIds : Cardinality(SurfacedFor(d, id)) <= 1

\* C26: a session is created only after startCharge found the driver's payment
\* method, and the Cloud Functions look the same driver up: no session of a driver
\* whose own users document (users/{uid}) holds a payment method is failed by
\* startChargeProcess with "No payment method".
C26_BilledDriverIsNotFailed ==
  \A id \in 1..Len(charges) :
    users[uid[charges[id].driverId]].stripeToken =>
      charges[id].error # "No payment method"

\* C27: the timeout reset never releases a station that is charging: no resetStation
\* started by a client's stations listener writes to a station that another driver
\* has meanwhile moved to charging.
C27_TimeoutResetSparesCharging ==
  [][\A d \in Drivers, s \in Stations :
       (TimeoutReset(d, s) /\ stations[s].driverId # d) =>
         stations[s].status # "charging"]_vars

\* C28: when Start Charge of the Charges section starts a charge, the station it
\* moves to charging, and records in the new session, is the station the driver
\* holds en route, whatever station was selected on the map before.
C28_StartChargeUsesEnRouteStation ==
  [][\A d \in Drivers :
       ((\E within \in BOOLEAN : startCharge(d, within)) /\ pc'[d] = "startCharge") =>
         /\ opStation'[d] = enRouteStation(d)
         /\ stations'[enRouteStation(d)].status = "charging"]_vars

\* C29: whenever endCharge, run for the station of the driver's session, drops the
\* local chargeSession, the session document has its endTime set and the station
\* is available: on every path, out-of-network stations included.
C29_DroppedSessionIsClosedAndReleased ==
  [][\A d \in Drivers :
       (/\ endCharge(d) \/ EndChargeClose(d) \/ EndChargePlatform(d)
        /\ chargeSession[d] # 0
        /\ chargeSession'[d] = 0
        /\ charges[chargeSession[d]].stationId =
             (IF pc[d] = "idle" THEN selectedStation[d].id ELSE opStation[d])) =>
         /\ charges'[chargeSession[d]].endTime # 0
         /\ stations'[charges[chargeSession[d]].stationId].status = "available"]_vars

\* C30: startCharge is failure-atomic across its two writes: in every state with no
\* handler in flight, a station that is charging has a session without endTime.
C30_ChargingStationHasOpenSession ==
  (\A d \in Drivers : pc[d] = "idle") =>
    \A s \in Stations :
      stations[s].status = "charging" =>
        \E id \in 1..Len(charges) : charges[id].stationId = s /\ charges[id].endTime = 0

====
